---- MODULE Spec2Model ----
(***************************************************************************)
(* Model of the tool installation step of src/pkg/tool/sonar/sonar.go      *)
(* (package step: ToolInstallStep.Run, runIntallationScripts, Environs,    *)
(* GetObjectPath).                                                         *)
(*                                                                         *)
(* Strings are sequences of tokens.  A token is one character ("/", "=",   *)
(* "$", ...) or, for a literal of the source that no input can overlap     *)
(* with, the whole literal ("set -ex", "-v", "download package ").         *)
(***************************************************************************)
EXTENDS Integers, Sequences, FiniteSets, TLC

\* ------------------------------------------------------------------------
\* Bounds of the model
\* ------------------------------------------------------------------------
MaxTools == 2
MaxEnvs == 4

\* ------------------------------------------------------------------------
\* Library string functions, as the code uses them
\* ------------------------------------------------------------------------

\* p occurs in s starting at position k
HasPrefixAt(s, p, k) ==
    /\ k + Len(p) - 1 <= Len(s)
    /\ \A j \in 1..Len(p) : s[k + j - 1] = p[j]

\* strings.Contains
Contains(s, sub) == \E k \in 1..(Len(s) + 1) : HasPrefixAt(s, sub, k)

RECURSIVE ReplaceFrom(_, _, _, _)
ReplaceFrom(s, old, new, k) ==
    IF k > Len(s) THEN <<>>
    ELSE IF HasPrefixAt(s, old, k)
         THEN new \o ReplaceFrom(s, old, new, k + Len(old))
         ELSE <<s[k]>> \o ReplaceFrom(s, old, new, k + 1)

\* strings.ReplaceAll / strings.Replace(.., -1) for a non-empty old:
\* non-overlapping occurrences, left to right
ReplaceAll(s, old, new) == ReplaceFrom(s, old, new, 1)

RECURSIVE SplitFrom(_, _, _, _)
SplitFrom(s, c, k, cur) ==
    IF k > Len(s) THEN <<cur>>
    ELSE IF s[k] = c
         THEN <<cur>> \o SplitFrom(s, c, k + 1, <<>>)
         ELSE SplitFrom(s, c, k + 1, Append(cur, s[k]))

\* strings.Split on a one-character separator: n separators give n+1 parts
Split(s, c) == SplitFrom(s, c, 1, <<>>)

RECURSIVE JoinStr(_, _)
\* strings.Join
JoinStr(parts, sep) ==
    IF Len(parts) = 0 THEN <<>>
    ELSE IF Len(parts) = 1 THEN parts[1]
    ELSE parts[1] \o sep \o JoinStr(Tail(parts), sep)

RECURSIVE TrimLeft(_, _)
\* strings.TrimLeft with a one-character cutset
TrimLeft(s, c) ==
    IF Len(s) > 0 /\ s[1] = c THEN TrimLeft(Tail(s), c) ELSE s

RECURSIVE CleanSegs(_, _, _, _)
CleanSegs(segs, k, rooted, out) ==
    IF k > Len(segs) THEN out
    ELSE LET e == segs[k] IN
         IF e = <<>> \/ e = <<".">>
         THEN CleanSegs(segs, k + 1, rooted, out)
         ELSE IF e = <<".", ".">>
         THEN IF Len(out) > 0 /\ out[Len(out)] # <<".", ".">>
              THEN CleanSegs(segs, k + 1, rooted, SubSeq(out, 1, Len(out) - 1))
              ELSE IF rooted
                   THEN CleanSegs(segs, k + 1, rooted, out)
                   ELSE CleanSegs(segs, k + 1, rooted, Append(out, e))
         ELSE CleanSegs(segs, k + 1, rooted, Append(out, e))

\* path.Clean / filepath.Clean (slash-separated paths)
Clean(p) ==
    IF p = <<>> THEN <<".">>
    ELSE LET rooted == p[1] = "/"
             body == JoinStr(CleanSegs(Split(p, "/"), 1, rooted, <<>>), <<"/">>)
         IN  IF rooted THEN <<"/">> \o body
             ELSE IF body = <<>> THEN <<".">> ELSE body

\* path.Join / filepath.Join: empty elements are ignored, the rest is joined
\* with "/" and cleaned; all elements empty gives ""
PathJoin(elems) ==
    LET ne == SelectSeq(elems, LAMBDA e : e # <<>>)
    IN  IF ne = <<>> THEN <<>> ELSE Clean(JoinStr(ne, <<"/">>))

\* ------------------------------------------------------------------------
\* Values the step takes from its surroundings
\* ------------------------------------------------------------------------

\* config.FilepathParam, the artifact-path placeholder
FilepathParam == <<"$", "{", "F", "}">>

\* the literal "$HOME" of Environs
HomeParam == <<"$", "H", "O", "M", "E">>

\* config.Home()
Home == <<"/", "r">>

\* config.ConstructCachePath
ConstructCachePath == <<"/", "c">>

\* os.TempDir()
TempDir == <<"/", "t">>

\* the scripts' first line
StrictHeader == <<"set -ex">>

NoErr == <<>>


\* ------------------------------------------------------------------------
\* Pure functions of the step
\* ------------------------------------------------------------------------

RECURSIVE EnvironsFrom(_, _)
\* the loop of Environs from entry k on
EnvironsFrom(envs, k) ==
    IF k > Len(envs) THEN <<>>
    ELSE LET val == envs[k] IN
         IF val = <<>> THEN EnvironsFrom(envs, k + 1)
         ELSE IF Len(Split(val, "=")) # 2 THEN EnvironsFrom(envs, k + 1)
         ELSE <<ReplaceAll(val, HomeParam, Home)>> \o EnvironsFrom(envs, k + 1)

RECURSIVE EnvironsAnySeparator(_)
\* Environs keeping every entry that holds a separator
EnvironsAnySeparator(envs) ==
    IF envs = <<>> THEN <<>>
    ELSE IF Len(Split(Head(envs), "=")) < 2
         THEN EnvironsAnySeparator(Tail(envs))
         ELSE <<ReplaceAll(Head(envs), HomeParam, Home)>>
                  \o EnvironsAnySeparator(Tail(envs))

Environs(envs) == EnvironsFrom(envs, 1)

GetObjectPath(name, subFolder) ==
    IF subFolder # <<>>
    THEN TrimLeft(PathJoin(<<subFolder, name>>), "/")
    ELSE TrimLeft(name, "/")

\* fmt.Sprintf("%s/%s-v%s", config.ConstructCachePath, tool.Name, tool.Version)
SubfolderOf(tool) ==
    ConstructCachePath \o <<"/">> \o tool.Name \o <<"-v">> \o tool.Version

\* the last element of strings.Split(tool.Download, "/")
FileNameOf(download) ==
    LET parts == Split(download, "/") IN parts[Len(parts)]

\* path.Join(os.TempDir(), fileName)
TmpPathOf(fileName) == PathJoin(<<TempDir, fileName>>)

\* strings.ReplaceAll(command, config.FilepathParam, tmpPath) for each command
RealCommands(cmds, path) ==
    [j \in 1..Len(cmds) |-> ReplaceAll(cmds[j], FilepathParam, path)]

\* []byte(strings.Join(scripts, "\n"))
ScriptBody(lines) == JoinStr(lines, <<"\n">>)

\* fmt.Errorf("download package %s error: %v", tool.Download, err)
DownloadError(tool, err) ==
    <<"download package ">> \o tool.Download \o <<" error: ">> \o err

\* the permission bits of the script file
ScriptMode == <<"0700">>

\* fmt.Errorf("write script file error: %v", err)
WriteError(err) == <<"write script file error: ">> \o err

\* ------------------------------------------------------------------------
\* Inputs: the tools a step may be constructed with
\* ------------------------------------------------------------------------

EnvPlain == <<"A", "=", "1">>
EnvNoSep == <<"B">>
EnvEmptyKey == <<"=", "2">>
EnvTwoSep == <<"C", "=", "3", "=", "3">>
EnvHome == <<"P", "=">> \o HomeParam \o <<"/">> \o HomeParam
EnvHomeNoSep == HomeParam
EnvPartial == <<"Q", "=", "$", "H", "O">>

EnvPool ==
    {<<>>, EnvPlain, EnvNoSep, EnvEmptyKey, EnvTwoSep, EnvHome, EnvHomeNoSep,
     EnvPartial}

UrlFile == <<"h", "/", "a", ".", "z">>
UrlDir == <<"h", "/", "d", "/">>

NilTool ==
    [isNil |-> TRUE, Name |-> <<>>, Version |-> <<>>, Download |-> <<>>,
     Envs |-> <<>>, Scripts |-> <<>>]

Tool(name, version, download, envs, cmds) ==
    [isNil |-> FALSE, Name |-> name, Version |-> version, Download |-> download,
     Envs |-> envs, Scripts |-> cmds]

ToolPlain ==
    Tool(<<"n">>, <<"1">>, <<>>, <<EnvPlain, EnvNoSep>>,
         << <<"i", " ">> \o FilepathParam >>)
ToolCached ==
    Tool(<<"n">>, <<"1">>, UrlFile, <<EnvHome, EnvEmptyKey>>,
         << <<"x", " ">> \o FilepathParam \o <<" ">> \o FilepathParam, <<"y">> >>)
ToolOther == Tool(<<"m">>, <<"2">>, UrlFile, <<>>, <<>>)
ToolDirUrl == Tool(<<"h">>, <<"1">>, UrlDir, <<EnvTwoSep>>, <<FilepathParam>>)
ToolMultiLine == Tool(<<"m">>, <<"1">>, <<>>, <<>>, << <<"a", "\n", "b">> >>)

ToolPool ==
    {NilTool, ToolPlain, ToolCached, ToolOther, ToolDirUrl, ToolMultiLine}

SeqsUpTo(S, n) == UNION {[1..k -> S] : k \in 0..n}

BaseEnvs == << <<"K", "=", "0">> >>
SecretEnvs == << <<"S", "=", "9">> >>

\* StorageConfig.Subfolder as configured
SubfolderPool == {<<>>, <<"s">>}

\* what a failing external call may report
ErrTexts == {<<"E">>}
DownloadErrTexts(url) == {<<"E">>, <<"Get ">> \o url \o <<": E">>}
ExitError == <<"exit status 1">>

\* ------------------------------------------------------------------------
\* State
\* ------------------------------------------------------------------------
VARIABLES
    spec,        \* s.spec: Installs and S3Storage
    spec0,       \* s.spec as NewToolInstallStep parsed it
    envs,        \* s.envs
    secretEnvs,  \* s.secretEnvs
    idx,         \* position of Run's range loop (1-based)
    pc,          \* control location of Run / runIntallationScripts
    tmpPath,     \* local tmpPath
    fileName,    \* local fileName
    objectKey,   \* local objectKey
    scripts,     \* local scripts
    file,        \* local file: the script file of this invocation
    ops,         \* the external operations performed so far, in order
    ret,         \* what Run returned
    fnIn,        \* argument of a pure function under check
    fnOut,       \* its result
    fnPc,
    written,     \* per tool and stream: lines the subprocess has written
    pipe,        \* per tool and stream: lines in the pipe, not yet read
    closed,      \* per tool and stream: the read end has been closed
    buf,         \* per tool and stream: lines read into the scanner's buffer
    held,        \* per tool and stream: the line Scan handed out (0: none)
    gpc,         \* per tool and stream: where the drain goroutine is
    logged,      \* the lines printed so far, in order
    wpc,         \* WaitForCETaskTobeDone: where the call is
    timeouts,    \* the channel of time.After holds its value
    tickerC,     \* ticker.C holds a tick
    polls,       \* the results of GetCETaskInfo so far, in order
    wret         \* what WaitForCETaskTobeDone returned

vars ==
    <<spec, spec0, envs, secretEnvs, idx, pc, tmpPath, fileName, objectKey,
      scripts, file, ops, ret, fnIn, fnOut, fnPc,
      written, pipe, closed, buf, held, gpc, logged,
      wpc, timeouts, tickerC, polls, wret>>

fnVars == <<fnIn, fnOut, fnPc>>

ioVars == <<written, pipe, closed, buf, held, gpc, logged>>

waitVars == <<wpc, timeouts, tickerC, polls, wret>>

\* WaitForCETaskTobeDone has not returned
Waiting == [returned |-> FALSE, id |-> <<>>, err |-> <<>>]

\* WaitForCETaskTobeDone is not called
NoWait ==
    /\ wpc = "idle"
    /\ timeouts = FALSE
    /\ tickerC = FALSE
    /\ polls = <<>>
    /\ wret = Waiting

\* the two streams of a subprocess
Streams == {"out", "err"}

\* before exec.Command of a tool: no pipe, no scanner, no goroutine
NoStreams(tools) ==
    /\ written = [j \in 1..Len(tools) |-> [s \in Streams |-> 0]]
    /\ pipe = [j \in 1..Len(tools) |-> [s \in Streams |-> <<>>]]
    /\ closed = [j \in 1..Len(tools) |-> [s \in Streams |-> FALSE]]
    /\ buf = [j \in 1..Len(tools) |-> [s \in Streams |-> <<>>]]
    /\ held = [j \in 1..Len(tools) |-> [s \in Streams |-> 0]]
    /\ gpc = [j \in 1..Len(tools) |-> [s \in Streams |-> "none"]]
    /\ logged = <<>>

Op(name, ok, key, path, data) ==
    [op |-> name, tool |-> idx, ok |-> ok, key |-> key, path |-> path,
     data |-> data]

CurTool == spec.Installs[idx]

Running == [returned |-> FALSE, failed |-> FALSE, msg |-> NoErr]
Returned(err) == [returned |-> TRUE, failed |-> err # NoErr, msg |-> err]

Init ==
    /\ \E tools \in SeqsUpTo(ToolPool, MaxTools), sub \in SubfolderPool :
          spec = [Installs |-> tools,
                  S3Storage |-> [Bucket |-> <<"b">>, Subfolder |-> sub]]
    /\ spec0 = spec
    /\ envs = BaseEnvs
    /\ secretEnvs = SecretEnvs
    /\ idx = 1
    /\ pc = "loop"
    /\ tmpPath = <<>>
    /\ fileName = <<>>
    /\ objectKey = <<>>
    /\ scripts = <<>>
    /\ file = 0
    /\ ops = <<>>
    /\ ret = Running
    /\ fnIn = <<>>
    /\ fnOut = <<>>
    /\ fnPc = "idle"
    /\ NoStreams(spec.Installs)
    /\ NoWait


\* ------------------------------------------------------------------------
\* Run: the range loop over s.spec.Installs
\* ------------------------------------------------------------------------

locals == <<tmpPath, fileName, objectKey, scripts, file>>

\* the loop is exhausted: return nil
RunReturn ==
    /\ pc = "loop"
    /\ idx > Len(spec.Installs)
    /\ ret' = Returned(NoErr)
    /\ pc' = "done"
    /\ UNCHANGED <<spec, spec0, envs, secretEnvs, idx, locals, ops, fnVars, waitVars, ioVars>>

\* log.Infof("Installing %s %s.", tool.Name, tool.Version) on a nil entry
\* of the list: the nil pointer is dereferenced and Run panics before
\* runIntallationScripts and its nil test are reached; Run returns nothing
NilEntryPanic ==
    /\ pc = "loop"
    /\ idx <= Len(spec.Installs)
    /\ CurTool.isNil
    /\ pc' = "panic"
    /\ UNCHANGED <<spec, spec0, envs, secretEnvs, idx, locals, ops, ret,
                   fnVars, waitVars, ioVars>>

\* Begin without the append to s.envs
BeginNoEnv ==
    /\ pc = "loop"
    /\ idx <= Len(spec.Installs)
    /\ ~CurTool.isNil
    /\ tmpPath' = <<>>
    /\ fileName' = <<>>
    /\ objectKey' = <<>>
    /\ scripts' = <<StrictHeader>>
    /\ file' = 0
    /\ pc' = "resolve"
    /\ UNCHANGED <<spec, spec0, envs, secretEnvs, idx, ops, ret, fnVars, waitVars, ioVars>>

\* runIntallationScripts up to the test of tool.Download: fresh locals, the
\* header line, and the tool's environment appended to s.envs
Begin ==
    /\ pc = "loop"
    /\ idx <= Len(spec.Installs)
    /\ ~CurTool.isNil
    /\ tmpPath' = <<>>
    /\ fileName' = <<>>
    /\ objectKey' = <<>>
    /\ scripts' = <<StrictHeader>>
    /\ file' = 0
    /\ envs' = envs \o Environs(CurTool.Envs)
    /\ pc' = "resolve"
    /\ UNCHANGED <<spec, spec0, secretEnvs, idx, ops, ret, fnVars, waitVars, ioVars>>

\* NoDownload with tmpPath joined before the test of tool.Download
NoDownloadTempDir ==
    /\ pc = "resolve"
    /\ CurTool.Download = <<>>
    /\ tmpPath' = TmpPathOf(<<>>)
    /\ pc' = "compose"
    /\ UNCHANGED <<spec, spec0, envs, secretEnvs, idx, fileName, objectKey,
                   scripts, file, ops, ret, fnVars, waitVars, ioVars>>

\* tool.Download == "": nothing to resolve
NoDownload ==
    /\ pc = "resolve"
    /\ CurTool.Download = <<>>
    /\ pc' = "compose"
    /\ UNCHANGED <<spec, spec0, envs, secretEnvs, idx, locals, ops, ret, fnVars, waitVars, ioVars>>

\* NewClient with the suffix appended to the Subfolder found in the config
NewClientAppendSubfolder ==
    /\ pc = "resolve"
    /\ CurTool.Download # <<>>
    /\ spec' = [spec EXCEPT !.S3Storage.Subfolder =
                    spec.S3Storage.Subfolder \o <<"/">> \o CurTool.Name
                        \o <<"-v">> \o CurTool.Version]
    /\ fileName' = FileNameOf(CurTool.Download)
    /\ tmpPath' = TmpPathOf(FileNameOf(CurTool.Download))
    /\ \E ok \in BOOLEAN :
          /\ ops' = Append(ops, Op("newclient", ok, <<>>, <<>>, <<>>))
          /\ pc' = IF ok THEN "fetch" ELSE "download_noclient"
    /\ UNCHANGED <<spec0, envs, secretEnvs, idx, objectKey, scripts, file, ret,
                   fnVars, waitVars, ioVars>>

\* tool.Download != "": Subfolder, fileName, tmpPath, then s3tool.NewClient
NewClient ==
    /\ pc = "resolve"
    /\ CurTool.Download # <<>>
    /\ spec' = [spec EXCEPT !.S3Storage.Subfolder = SubfolderOf(CurTool)]
    /\ fileName' = FileNameOf(CurTool.Download)
    /\ tmpPath' = TmpPathOf(FileNameOf(CurTool.Download))
    /\ \E ok \in BOOLEAN :
          /\ ops' = Append(ops, Op("newclient", ok, <<>>, <<>>, <<>>))
          /\ pc' = IF ok THEN "fetch" ELSE "download_noclient"
    /\ UNCHANGED <<spec0, envs, secretEnvs, idx, objectKey, scripts, file, ret,
                   fnVars, waitVars, ioVars>>

\* CacheFetch falling back to the origin whatever the fetch returned
CacheFetchAlwaysFallback ==
    /\ pc = "fetch"
    /\ objectKey' = GetObjectPath(fileName, spec.S3Storage.Subfolder)
    /\ \E ok \in BOOLEAN :
          ops' = Append(ops, Op("fetch", ok, objectKey', tmpPath,
                                spec.S3Storage.Bucket))
    /\ pc' = "download"
    /\ UNCHANGED <<spec, spec0, envs, secretEnvs, idx, tmpPath, fileName,
                   scripts, file, ret, fnVars, waitVars, ioVars>>

\* s3client.Download(bucket, objectKey, tmpPath)
CacheFetch ==
    /\ pc = "fetch"
    /\ objectKey' = GetObjectPath(fileName, spec.S3Storage.Subfolder)
    /\ \E ok \in BOOLEAN :
          /\ ops' = Append(ops, Op("fetch", ok, objectKey', tmpPath,
                                   spec.S3Storage.Bucket))
          /\ pc' = IF ok THEN "compose" ELSE "download"
    /\ UNCHANGED <<spec, spec0, envs, secretEnvs, idx, tmpPath, fileName,
                   scripts, file, ret, fnVars, waitVars, ioVars>>

\* OriginDownload trying the download a second time after a failure
OriginDownloadRetry ==
    /\ pc = "download"
    /\ \E ok \in BOOLEAN :
          /\ ops' = Append(ops, Op("download", ok, CurTool.Download, tmpPath,
                                   <<>>))
          /\ pc' = IF ok THEN "upload" ELSE "download_noclient"
    /\ UNCHANGED <<spec, spec0, envs, secretEnvs, idx, locals, ret, fnVars, waitVars, ioVars>>

\* httpclient.Download after a failed cache fetch; its error is wrapped
OriginDownload ==
    /\ pc = "download"
    /\ \/ /\ ops' = Append(ops, Op("download", TRUE, CurTool.Download, tmpPath,
                                   <<>>))
          /\ pc' = "upload"
          /\ ret' = ret
       \/ \E e \in DownloadErrTexts(CurTool.Download) :
             /\ ops' = Append(ops, Op("download", FALSE, CurTool.Download,
                                      tmpPath, e))
             /\ ret' = Returned(DownloadError(CurTool, e))
             /\ pc' = "done"
    /\ UNCHANGED <<spec, spec0, envs, secretEnvs, idx, locals, fnVars, waitVars, ioVars>>

\* CacheUpload with a failed upload failing the tool
CacheUploadFatal ==
    /\ pc = "upload"
    /\ \/ /\ ops' = Append(ops, Op("upload", TRUE, objectKey, tmpPath,
                                   spec.S3Storage.Bucket))
          /\ pc' = "compose"
          /\ ret' = ret
       \/ /\ ops' = Append(ops, Op("upload", FALSE, objectKey, tmpPath,
                                   spec.S3Storage.Bucket))
          /\ ret' = Returned(<<"E">>)
          /\ pc' = "done"
    /\ UNCHANGED <<spec, spec0, envs, secretEnvs, idx, locals, fnVars, waitVars, ioVars>>

\* s3client.Upload(bucket, tmpPath, objectKey): its result is not looked at
CacheUpload ==
    /\ pc = "upload"
    /\ \E ok \in BOOLEAN :
          ops' = Append(ops, Op("upload", ok, objectKey, tmpPath,
                                spec.S3Storage.Bucket))
    /\ pc' = "compose"
    /\ UNCHANGED <<spec, spec0, envs, secretEnvs, idx, locals, ret, fnVars, waitVars, ioVars>>

\* httpclient.Download when no client could be constructed; its error is
\* returned as it is
OriginDownloadNoClient ==
    /\ pc = "download_noclient"
    /\ \/ /\ ops' = Append(ops, Op("download", TRUE, CurTool.Download, tmpPath,
                                   <<>>))
          /\ pc' = "compose"
          /\ ret' = ret
       \/ \E e \in DownloadErrTexts(CurTool.Download) :
             /\ ops' = Append(ops, Op("download", FALSE, CurTool.Download,
                                      tmpPath, e))
             /\ ret' = Returned(e)
             /\ pc' = "done"
    /\ UNCHANGED <<spec, spec0, envs, secretEnvs, idx, locals, fnVars, waitVars, ioVars>>

\* Compose appending the command templates as declared
ComposeNoSubstitution ==
    /\ pc = "compose"
    /\ scripts' = scripts \o CurTool.Scripts
    /\ pc' = "write"
    /\ UNCHANGED <<spec, spec0, envs, secretEnvs, idx, tmpPath, fileName,
                   objectKey, file, ops, ret, fnVars, waitVars, ioVars>>

\* the substitution loop writes tool.Scripts in place; then the append
Compose ==
    /\ pc = "compose"
    /\ LET real == RealCommands(CurTool.Scripts, tmpPath) IN
          /\ spec' = [spec EXCEPT !.Installs[idx].Scripts = real]
          /\ scripts' = scripts \o real
    /\ pc' = "write"
    /\ UNCHANGED <<spec0, envs, secretEnvs, idx, tmpPath, fileName, objectKey,
                   file, ops, ret, fnVars, waitVars, ioVars>>

\* WriteScript going on to the pipes whatever WriteFile returned
WriteScriptIgnoreError ==
    /\ pc = "write"
    /\ file' = idx
    /\ \E ok \in BOOLEAN :
          ops' = Append(ops, Op("write", ok, ScriptMode, file',
                                IF ok THEN ScriptBody(scripts) ELSE <<>>))
    /\ pc' = "pipes"
    /\ UNCHANGED <<spec, spec0, envs, secretEnvs, idx, tmpPath, fileName,
                   objectKey, scripts, ret, fnVars, waitVars, ioVars>>

\* ioutil.WriteFile(file, strings.Join(scripts, "\n"), 0700)
WriteScript ==
    /\ pc = "write"
    /\ file' = idx
    /\ \/ /\ ops' = Append(ops, Op("write", TRUE, ScriptMode, file',
                                   ScriptBody(scripts)))
          /\ pc' = "pipes"
          /\ ret' = ret
       \/ \E e \in ErrTexts :
             /\ ops' = Append(ops, Op("write", FALSE, ScriptMode, file',
                                      <<>>))
             /\ ret' = Returned(WriteError(e))
             /\ pc' = "done"
    /\ UNCHANGED <<spec, spec0, envs, secretEnvs, idx, tmpPath, fileName,
                   objectKey, scripts, fnVars, waitVars, ioVars>>

\* both read ends of the current tool's pipes are closed
CloseReadEnds ==
    closed' = [closed EXCEPT ![idx] = [s \in Streams |-> TRUE]]

\* exec.Command, cmd.StdoutPipe, go (stdout drain), cmd.StderrPipe,
\* go (stderr drain): a pipe that cannot be created returns its error
\* before anything is started; when it is the stderr pipe, the stdout drain
\* goroutine is already running
Pipes ==
    /\ pc = "pipes"
    /\ \/ /\ pc' = "start"
          /\ ret' = ret
          /\ gpc' = [gpc EXCEPT ![idx] = [s \in Streams |-> "scan"]]
       \/ \E e \in ErrTexts :
             /\ ret' = Returned(e)
             /\ pc' = "done"
             /\ gpc' = gpc
       \/ \E e \in ErrTexts :
             /\ ret' = Returned(e)
             /\ pc' = "done"
             /\ gpc' = [gpc EXCEPT ![idx]["out"] = "scan"]
    /\ UNCHANGED <<spec, spec0, envs, secretEnvs, idx, locals, ops, fnVars, waitVars,
                   written, pipe, closed, buf, held, logged>>

\* CmdStart with the start error dropped and the loop going on
CmdStartIgnoreError ==
    /\ pc = "start"
    /\ \E ok \in BOOLEAN :
          /\ ops' = Append(ops, Op("spawn", ok, <<>>, file, envs))
          /\ IF ok THEN closed' = closed ELSE CloseReadEnds
    /\ pc' = "wait"
    /\ UNCHANGED <<spec, spec0, envs, secretEnvs, idx, locals, ret, fnVars, waitVars,
                   written, pipe, buf, held, gpc, logged>>

\* cmd.Env = s.envs; cmd.Run starts /bin/bash file; a failed start closes
\* the pipes
CmdStart ==
    /\ pc = "start"
    /\ \/ /\ ops' = Append(ops, Op("spawn", TRUE, <<>>, file, envs))
          /\ pc' = "wait"
          /\ ret' = ret
          /\ closed' = closed
       \/ \E e \in ErrTexts :
             /\ ops' = Append(ops, Op("spawn", FALSE, <<>>, file, envs))
             /\ ret' = Returned(e)
             /\ pc' = "done"
             /\ CloseReadEnds
    /\ UNCHANGED <<spec, spec0, envs, secretEnvs, idx, locals, fnVars, waitVars,
                   written, pipe, buf, held, gpc, logged>>

\* CmdWait with a non-zero exit going on to the next tool
CmdWaitContinue ==
    /\ pc = "wait"
    /\ \E ok \in BOOLEAN :
          ops' = Append(ops, Op("exit", ok, <<>>, file, <<>>))
    /\ CloseReadEnds
    /\ idx' = idx + 1
    /\ pc' = "loop"
    /\ UNCHANGED <<spec, spec0, envs, secretEnvs, locals, ret, fnVars, waitVars,
                   written, pipe, buf, held, gpc, logged>>

\* cmd.Run waits for the exit and then closes the read ends of the pipes:
\* status zero returns nil and the loop goes on
CmdWait ==
    /\ pc = "wait"
    /\ \/ /\ ops' = Append(ops, Op("exit", TRUE, <<>>, file, <<>>))
          /\ idx' = idx + 1
          /\ pc' = "loop"
          /\ ret' = ret
       \/ /\ ops' = Append(ops, Op("exit", FALSE, <<>>, file, <<>>))
          /\ ret' = Returned(ExitError)
          /\ pc' = "done"
          /\ idx' = idx
    /\ CloseReadEnds
    /\ UNCHANGED <<spec, spec0, envs, secretEnvs, locals, fnVars, waitVars,
                   written, pipe, buf, held, gpc, logged>>

Next ==
    \/ RunReturn
    \/ NilEntryPanic
    \/ Begin
    \/ NoDownload
    \/ NewClient
    \/ CacheFetch
    \/ OriginDownload
    \/ CacheUpload
    \/ OriginDownloadNoClient
    \/ Compose
    \/ WriteScript
    \/ Pipes
    \/ CmdStart
    \/ CmdWait

Spec == Init /\ [][Next]_vars

\* Run under fair scheduling: every external call returns and the one
\* control thread keeps running.  The lists are drawn from a nil entry, a
\* tool without download and a tool with one.
InitFair ==
    /\ Init
    /\ \A j \in 1..Len(spec.Installs) :
          spec.Installs[j] \in {NilTool, ToolPlain, ToolCached}
    /\ spec.S3Storage.Subfolder = <<>>

SpecFair == InitFair /\ [][Next]_vars /\ WF_vars(Next)

\* ------------------------------------------------------------------------
\* The subprocess and the two drain goroutines of a tool.  A line is
\* identified by its position in its stream; lines are short enough for
\* one Read to take all that the pipe holds.
\* ------------------------------------------------------------------------

MaxLines == 2

\* the installation of tool j has returned to Run
InstallReturned(j) == idx > j \/ pc = "done"

\* the running subprocess writes its next line to stream s
ProcWrite(s) ==
    /\ pc = "wait"
    /\ written[idx][s] < MaxLines
    /\ written' = [written EXCEPT ![idx][s] = @ + 1]
    /\ pipe' = [pipe EXCEPT ![idx][s] = Append(@, written[idx][s] + 1)]
    /\ UNCHANGED <<spec, spec0, envs, secretEnvs, idx, pc, locals, ops, ret,
                   fnVars, waitVars, closed, buf, held, gpc, logged>>

\* Scan handing out the last line that was read instead of the first
DrainScanNewestFirst(j, s) ==
    /\ gpc[j][s] = "scan"
    /\ IF buf[j][s] # <<>>
         THEN /\ held' = [held EXCEPT ![j][s] = buf[j][s][Len(buf[j][s])]]
              /\ buf' = [buf EXCEPT ![j][s] = SubSeq(@, 1, Len(@) - 1)]
              /\ gpc' = [gpc EXCEPT ![j][s] = "print"]
              /\ pipe' = pipe
         ELSE IF closed[j][s]
         THEN /\ gpc' = [gpc EXCEPT ![j][s] = "ended"]
              /\ UNCHANGED <<held, buf, pipe>>
         ELSE /\ pipe[j][s] # <<>>
              /\ held' = [held EXCEPT ![j][s] = pipe[j][s][Len(pipe[j][s])]]
              /\ buf' = [buf EXCEPT
                           ![j][s] = SubSeq(pipe[j][s], 1, Len(pipe[j][s]) - 1)]
              /\ pipe' = [pipe EXCEPT ![j][s] = <<>>]
              /\ gpc' = [gpc EXCEPT ![j][s] = "print"]
    /\ UNCHANGED <<spec, spec0, envs, secretEnvs, idx, pc, locals, ops, ret,
                   fnVars, waitVars, written, closed, logged>>

\* scanner.Scan of a drain goroutine: it hands out the next line it holds;
\* with none left it reads the pipe, which fails once the read end is
\* closed (the loop ends) and blocks while the pipe is empty
DrainScan(j, s) ==
    /\ gpc[j][s] = "scan"
    /\ IF buf[j][s] # <<>>
         THEN /\ held' = [held EXCEPT ![j][s] = Head(buf[j][s])]
              /\ buf' = [buf EXCEPT ![j][s] = Tail(@)]
              /\ gpc' = [gpc EXCEPT ![j][s] = "print"]
              /\ pipe' = pipe
         ELSE IF closed[j][s]
         THEN /\ gpc' = [gpc EXCEPT ![j][s] = "ended"]
              /\ UNCHANGED <<held, buf, pipe>>
         ELSE /\ pipe[j][s] # <<>>
              /\ held' = [held EXCEPT ![j][s] = Head(pipe[j][s])]
              /\ buf' = [buf EXCEPT ![j][s] = Tail(pipe[j][s])]
              /\ pipe' = [pipe EXCEPT ![j][s] = <<>>]
              /\ gpc' = [gpc EXCEPT ![j][s] = "print"]
    /\ UNCHANGED <<spec, spec0, envs, secretEnvs, idx, pc, locals, ops, ret,
                   fnVars, waitVars, written, closed, logged>>

\* fmt.Printf of the line Scan handed out
DrainPrint(j, s) ==
    /\ gpc[j][s] = "print"
    /\ logged' = Append(logged, [tool |-> j, stream |-> s,
                                 line |-> held[j][s],
                                 late |-> InstallReturned(j)])
    /\ held' = [held EXCEPT ![j][s] = 0]
    /\ gpc' = [gpc EXCEPT ![j][s] = "scan"]
    /\ UNCHANGED <<spec, spec0, envs, secretEnvs, idx, pc, locals, ops, ret,
                   fnVars, waitVars, written, pipe, closed, buf>>

NextExec ==
    \/ Next
    \/ \E s \in Streams : ProcWrite(s)
    \/ \E j \in 1..Len(spec.Installs), s \in Streams : DrainScan(j, s)
    \/ \E j \in 1..Len(spec.Installs), s \in Streams : DrainPrint(j, s)

\* Run of a list of at most one entry, with the subprocess writing and the
\* goroutines draining
InitExec ==
    /\ Init
    /\ Len(spec.Installs) <= 1
    /\ \A j \in 1..Len(spec.Installs) :
          spec.Installs[j] \in {NilTool, ToolPlain, ToolCached}
    /\ spec.S3Storage.Subfolder = <<>>

SpecExec == InitExec /\ [][NextExec]_vars

\* ------------------------------------------------------------------------
\* Environs on its own: the argument is drawn from the entries of EnvPool
\* ------------------------------------------------------------------------

InitEnvirons ==
    /\ spec = [Installs |-> <<>>,
               S3Storage |-> [Bucket |-> <<"b">>, Subfolder |-> <<>>]]
    /\ spec0 = spec
    /\ envs = BaseEnvs
    /\ secretEnvs = SecretEnvs
    /\ idx = 1
    /\ pc = "idle"
    /\ tmpPath = <<>>
    /\ fileName = <<>>
    /\ objectKey = <<>>
    /\ scripts = <<>>
    /\ file = 0
    /\ ops = <<>>
    /\ ret = Running
    /\ fnIn \in SeqsUpTo(EnvPool, MaxEnvs)
    /\ fnOut = <<>>
    /\ fnPc = "call"
    /\ NoStreams(spec.Installs)
    /\ NoWait

CallEnvirons ==
    /\ fnPc = "call"
    /\ fnOut' = Environs(fnIn)
    /\ fnPc' = "done"
    /\ UNCHANGED <<spec, spec0, envs, secretEnvs, idx, pc, locals, ops, ret,
                   fnIn, ioVars, waitVars>>

NextEnvirons == CallEnvirons

SpecEnvirons == InitEnvirons /\ [][NextEnvirons]_vars


\* ------------------------------------------------------------------------
\* WaitForCETaskTobeDone: the select loop over the timeout channel and the
\* ticker.  GetCETaskInfo returns within the step that received the tick.
\* ------------------------------------------------------------------------

MaxPolls == 3

CETaskPending == <<"PENDING">>
CETaskInProgress == <<"IN_PROGRESS">>
CETaskSuccess == <<"SUCCESS">>
CETaskFailed == <<"FAILED">>
CETaskCanceled == <<"CANCELED">>

\* a status string that is none of the five constants
CETaskOther == <<"OTHER">>

CETaskStatus ==
    {CETaskPending, CETaskInProgress, CETaskSuccess, CETaskFailed,
     CETaskCanceled, CETaskOther}

AnalysisIDs == {<<"a1">>, <<"a2">>}

\* what GetCETaskInfo can give: an error, or a task with a status and an
\* analysis ID
PollResults ==
    {[ok |-> FALSE, status |-> <<>>, id |-> <<>>, err |-> e] : e \in ErrTexts}
    \cup {[ok |-> TRUE, status |-> st, id |-> a, err |-> NoErr] :
             st \in CETaskStatus, a \in AnalysisIDs}

TimeoutError == <<"sonar ce task excution timeout 10m">>
InfoError(e) == <<"get sonar ce task info error: ">> \o e
StatusError(st) == <<"sonar ce task status was ">> \o st

WaitReturned(id, err) == [returned |-> TRUE, id |-> id, err |-> err]

otherVars ==
    <<spec, spec0, envs, secretEnvs, idx, pc, locals, ops, ret, fnVars,
      ioVars>>

\* the timer of time.After(timeout) fires: its channel holds a value
TimeAfter ==
    /\ wpc = "select"
    /\ ~timeouts
    /\ timeouts' = TRUE
    /\ UNCHANGED <<otherVars, wpc, tickerC, polls, wret>>

\* the ticker sends a tick; a tick that finds ticker.C full is dropped
TickerTick ==
    /\ wpc = "select"
    /\ ~tickerC
    /\ Len(polls) < MaxPolls
    /\ tickerC' = TRUE
    /\ UNCHANGED <<otherVars, wpc, timeouts, polls, wret>>

\* case <-timeouts
SelectTimeouts ==
    /\ wpc = "select"
    /\ timeouts
    /\ timeouts' = FALSE
    /\ wret' = WaitReturned(<<>>, TimeoutError)
    /\ wpc' = "done"
    /\ UNCHANGED <<otherVars, tickerC, polls>>

\* case <-ticker.C with a FAILED task treated as still running
SelectTickerFailedPending ==
    /\ wpc = "select"
    /\ tickerC
    /\ tickerC' = FALSE
    /\ \E r \in PollResults :
          /\ polls' = Append(polls, r)
          /\ IF ~r.ok
               THEN wret' = WaitReturned(<<>>, InfoError(r.err)) /\ wpc' = "done"
               ELSE IF r.status = CETaskSuccess
               THEN wret' = WaitReturned(r.id, NoErr) /\ wpc' = "done"
               ELSE IF r.status = CETaskCanceled
               THEN /\ wret' = WaitReturned(<<>>, StatusError(r.status))
                    /\ wpc' = "done"
               ELSE wret' = wret /\ wpc' = wpc
    /\ UNCHANGED <<otherVars, timeouts>>

\* case <-ticker.C: one GetCETaskInfo and the three tests of its result
SelectTicker ==
    /\ wpc = "select"
    /\ tickerC
    /\ tickerC' = FALSE
    /\ \E r \in PollResults :
          /\ polls' = Append(polls, r)
          /\ IF ~r.ok
               THEN wret' = WaitReturned(<<>>, InfoError(r.err)) /\ wpc' = "done"
               ELSE IF r.status = CETaskSuccess
               THEN wret' = WaitReturned(r.id, NoErr) /\ wpc' = "done"
               ELSE IF r.status = CETaskCanceled \/ r.status = CETaskFailed
               THEN /\ wret' = WaitReturned(<<>>, StatusError(r.status))
                    /\ wpc' = "done"
               ELSE wret' = wret /\ wpc' = wpc
    /\ UNCHANGED <<otherVars, timeouts>>

NextWait ==
    \/ TimeAfter
    \/ TickerTick
    \/ SelectTimeouts
    \/ SelectTicker

InitWait ==
    /\ spec = [Installs |-> <<>>,
               S3Storage |-> [Bucket |-> <<"b">>, Subfolder |-> <<>>]]
    /\ spec0 = spec
    /\ envs = BaseEnvs
    /\ secretEnvs = SecretEnvs
    /\ idx = 1
    /\ pc = "idle"
    /\ tmpPath = <<>>
    /\ fileName = <<>>
    /\ objectKey = <<>>
    /\ scripts = <<>>
    /\ file = 0
    /\ ops = <<>>
    /\ ret = Running
    /\ fnIn = <<>>
    /\ fnOut = <<>>
    /\ fnPc = "idle"
    /\ NoStreams(spec.Installs)
    /\ wpc = "select"
    /\ timeouts = FALSE
    /\ tickerC = FALSE
    /\ polls = <<>>
    /\ wret = Waiting

\* time passes, so the timer fires; select chooses among its ready cases at
\* random, so a timeout case that stays ready is chosen in the end
SpecWait ==
    InitWait /\ [][NextWait]_vars /\ WF_vars(TimeAfter)
    /\ WF_vars(SelectTimeouts)

\* ------------------------------------------------------------------------
\* Vocabulary of the properties
\* ------------------------------------------------------------------------

ToolIds == 1..Len(spec.Installs)
RealTools == {j \in ToolIds : ~spec.Installs[j].isNil}

\* tool j performed operation name with outcome ok
Did(j, name, ok) ==
    \E k \in 1..Len(ops) :
        ops[k].tool = j /\ ops[k].op = name /\ ops[k].ok = ok

ToolOps(j, name) == SelectSeq(ops, LAMBDA o : o.tool = j /\ o.op = name)
Count(j, name) == Len(ToolOps(j, name))

Attempted(j) == \E k \in 1..Len(ops) : ops[k].tool = j
Succeeded(j) == Did(j, "exit", TRUE)
RunFailed == ret.returned /\ ret.failed
RunOk == ret.returned /\ ~ret.failed

\* tool j is the one being installed and control is at location l
At(j, l) == idx = j /\ pc = l

\* ------------------------------------------------------------------------
\* C1: Run attempts the tools in declared order, one at a time.  An
\* operation of tool j is performed only when every tool declared before j
\* has run to a zero exit; when Run returns an error it is the error of the
\* tool at the loop position, that tool did not succeed, no operation of any
\* later tool exists, and the operations of the earlier tools stand.
\* ------------------------------------------------------------------------
C1_FailFast ==
    /\ \A k \in 1..(Len(ops) - 1) : ops[k].tool <= ops[k + 1].tool
    /\ \A j \in ToolIds :
          Attempted(j) => \A h \in RealTools : h < j => Succeeded(h)
    /\ RunFailed =>
          /\ idx \in RealTools
          /\ ~Succeeded(idx)
          /\ \A j \in ToolIds : j > idx => ~Attempted(j)
          /\ \A h \in RealTools : h < idx => Succeeded(h)

\* the first of two tools failed and the second, a real tool, was never tried
C1_Witness ==
    /\ RunFailed
    /\ Len(spec.Installs) >= 2
    /\ idx = 1
    /\ Attempted(1)
    /\ 2 \in RealTools

\* ------------------------------------------------------------------------
\* C2: Run returns nil exactly when every tool of the list resolved its
\* artifact (or declares no download), had its script written, and had its
\* subprocess started and exit with status zero; a start error or a non-zero
\* exit makes Run return an error; an empty list returns nil.
\* ------------------------------------------------------------------------
Resolved(j) ==
    \/ spec.Installs[j].Download = <<>>
    \/ Did(j, "fetch", TRUE)
    \/ Did(j, "download", TRUE)

ToolOk(j) ==
    /\ Resolved(j)
    /\ Did(j, "write", TRUE)
    /\ Did(j, "spawn", TRUE)
    /\ Did(j, "exit", TRUE)

C2_SuccessIff ==
    /\ ret.returned => (~ret.failed <=> \A j \in RealTools : ToolOk(j))
    /\ \A j \in ToolIds :
          (Did(j, "spawn", FALSE) \/ Did(j, "exit", FALSE)) => RunFailed
    /\ (Len(spec.Installs) = 0 /\ ret.returned) => ~ret.failed

\* two real tools, one of them with a download, and Run returned nil
C2_Witness ==
    /\ RunOk
    /\ Cardinality(RealTools) = 2
    /\ \E j \in RealTools : spec.Installs[j].Download # <<>>

\* ------------------------------------------------------------------------
\* C3: after a failed cache fetch the origin download is attempted exactly
\* once; after that download succeeded the upload is attempted exactly once;
\* and with the upload done, failed or not, the tool goes on to compose and
\* write its script.
\* ------------------------------------------------------------------------
C3_Fallback ==
    \A j \in RealTools :
        /\ Did(j, "fetch", FALSE) =>
              Count(j, "download") = (IF At(j, "download") THEN 0 ELSE 1)
        /\ (Did(j, "fetch", FALSE) /\ Did(j, "download", TRUE)) =>
              Count(j, "upload") = (IF At(j, "upload") THEN 0 ELSE 1)
        /\ Count(j, "upload") > 0 =>
              /\ Did(j, "fetch", FALSE) /\ Did(j, "download", TRUE)
              /\ At(j, "compose") \/ At(j, "write") \/ Count(j, "write") = 1

\* a tool whose backfill upload failed ran its script to a zero exit
C3_Witness ==
    \E j \in RealTools :
        Did(j, "fetch", FALSE) /\ Did(j, "upload", FALSE) /\ Succeeded(j)

\* ------------------------------------------------------------------------
\* C4: after a successful cache fetch the tool performs no origin download
\* and no upload, and the path substituted for the placeholder in the script
\* is the path the artifact was fetched to: the temp directory joined with
\* the last segment of the download URL.
\* ------------------------------------------------------------------------
PlainName(n) == n # <<>> /\ n # <<".">> /\ n # <<".", ".">>

C4_CacheHit ==
    \A j \in RealTools :
        Did(j, "fetch", TRUE) =>
            LET f == ToolOps(j, "fetch")[1]
                n == FileNameOf(spec0.Installs[j].Download)
            IN  /\ Count(j, "download") = 0
                /\ Count(j, "upload") = 0
                /\ PlainName(n) => f.path = TempDir \o <<"/">> \o n
                /\ \A k \in 1..Len(ops) :
                      (ops[k].tool = j /\ ops[k].op = "write" /\ ops[k].ok) =>
                          ops[k].data =
                              ScriptBody(<<StrictHeader>> \o
                                  RealCommands(spec0.Installs[j].Scripts, f.path))

\* a cache hit for a tool whose commands hold the placeholder, script written
C4_Witness ==
    \E j \in RealTools :
        /\ Did(j, "fetch", TRUE)
        /\ Did(j, "write", TRUE)
        /\ \E c \in 1..Len(spec0.Installs[j].Scripts) :
              Contains(spec0.Installs[j].Scripts[c], FilepathParam)

\* ------------------------------------------------------------------------
\* C5: a tool with an empty Download constructs no cache client and performs
\* no fetch, download or upload, and its script is written with every
\* occurrence of the placeholder replaced by the empty string.
\* ------------------------------------------------------------------------
C5_NoDownload ==
    \A j \in RealTools :
        spec0.Installs[j].Download = <<>> =>
            /\ \A k \in 1..Len(ops) :
                  ops[k].tool = j =>
                      ops[k].op \notin {"newclient", "fetch", "download", "upload"}
            /\ \A k \in 1..Len(ops) :
                  (ops[k].tool = j /\ ops[k].op = "write" /\ ops[k].ok) =>
                      /\ ~Contains(ops[k].data, FilepathParam)
                      /\ ops[k].data =
                            ScriptBody(<<StrictHeader>> \o
                                RealCommands(spec0.Installs[j].Scripts, <<>>))

\* a tool without Download whose command holds the placeholder wrote its script
C5_Witness ==
    \E j \in RealTools :
        /\ spec0.Installs[j].Download = <<>>
        /\ Did(j, "write", TRUE)
        /\ \E c \in 1..Len(spec0.Installs[j].Scripts) :
              Contains(spec0.Installs[j].Scripts[c], FilepathParam)


\* ------------------------------------------------------------------------
\* C6: when the origin download fails after the cache tier failed, on the
\* construction-failure path as on the fetch-failure path, Run returns an
\* error whose text holds the tool's name and the download URL, no script is
\* written, no subprocess is started, and no later tool is attempted.
\* ------------------------------------------------------------------------
C6_ArtifactError ==
    \A j \in RealTools :
        Did(j, "download", FALSE) =>
            /\ RunFailed
            /\ idx = j
            /\ Contains(ret.msg, spec0.Installs[j].Name)
            /\ Contains(ret.msg, spec0.Installs[j].Download)
            /\ Count(j, "write") = 0
            /\ Count(j, "spawn") = 0
            /\ \A h \in ToolIds : h > j => ~Attempted(h)

\* ------------------------------------------------------------------------
\* C7: the environment of every started subprocess is the base envs, then
\* the secret envs, then the normalized envs of that tool.
\* ------------------------------------------------------------------------
C7_EnvOrder ==
    \A k \in 1..Len(ops) :
        ops[k].op = "spawn" =>
            ops[k].data =
                BaseEnvs \o SecretEnvs
                    \o Environs(spec0.Installs[ops[k].tool].Envs)

\* ------------------------------------------------------------------------
\* C8: Environs returns, in input order, the entries that hold exactly one
\* "=" (an empty key included), each with every "$HOME" replaced by the home
\* directory; entries with no "=" or with two or more are dropped.
\* ------------------------------------------------------------------------
Separators(v) == Cardinality({i \in 1..Len(v) : v[i] = "="})

C8_Environs ==
    fnPc = "done" =>
        LET kept == SelectSeq(fnIn, LAMBDA v : Separators(v) = 1)
        IN  /\ Len(fnOut) = Len(kept)
            /\ \A n \in 1..Len(kept) :
                  /\ fnOut[n] = ReplaceAll(kept[n], HomeParam, Home)
                  /\ ~Contains(fnOut[n], HomeParam)
                  /\ ~Contains(kept[n], HomeParam) => fnOut[n] = kept[n]

\* the boundary input ["A=1", "B", "=2", "C=3=3"] gave ["A=1", "=2"]
C8_Witness ==
    /\ fnPc = "done"
    /\ fnIn = <<EnvPlain, EnvNoSep, EnvEmptyKey, EnvTwoSep>>
    /\ fnOut = <<EnvPlain, EnvEmptyKey>>

\* ------------------------------------------------------------------------
\* C9 as stated: every written script is the header line followed by the
\* tool's commands, one per line, placeholder replaced by the resolved
\* artifact path: k commands give k + 1 lines.
\* ------------------------------------------------------------------------

\* the local path tool j resolved its artifact to: "" without a download
ArtifactPath(j) ==
    IF Count(j, "fetch") > 0 THEN ToolOps(j, "fetch")[1].path
    ELSE IF Count(j, "download") > 0 THEN ToolOps(j, "download")[1].path
    ELSE <<>>

\* tool j's commands as declared, placeholder replaced
Substituted(j) == RealCommands(spec0.Installs[j].Scripts, ArtifactPath(j))

C9_ScriptLines ==
    \A k \in 1..Len(ops) :
        (ops[k].op = "write" /\ ops[k].ok) =>
            LET j == ops[k].tool
                lines == Split(ops[k].data, "\n")
            IN  /\ Len(lines) = Len(spec0.Installs[j].Scripts) + 1
                /\ lines = <<StrictHeader>> \o Substituted(j)

\* ------------------------------------------------------------------------
\* C9 as amended: every written script is the header and the substituted
\* commands, in declared order, joined by newlines; when no substituted
\* command holds a newline these are exactly k + 1 lines.
\* ------------------------------------------------------------------------
C9_ScriptBody ==
    \A k \in 1..Len(ops) :
        (ops[k].op = "write" /\ ops[k].ok) =>
            LET j == ops[k].tool
                cmds == Substituted(j)
                lines == Split(ops[k].data, "\n")
            IN  /\ ops[k].data = JoinStr(<<StrictHeader>> \o cmds, <<"\n">>)
                /\ \A c \in 1..Len(cmds) : ~Contains(cmds[c], FilepathParam)
                /\ (\A c \in 1..Len(cmds) : ~Contains(cmds[c], <<"\n">>)) =>
                      /\ Len(lines) = Len(cmds) + 1
                      /\ lines = <<StrictHeader>> \o cmds

\* a downloaded tool with two commands, placeholders in one, wrote 3 lines
C9_Witness ==
    \E k \in 1..Len(ops) :
        /\ ops[k].op = "write" /\ ops[k].ok
        /\ spec0.Installs[ops[k].tool] = ToolCached
        /\ Len(Split(ops[k].data, "\n")) = 3

\* ------------------------------------------------------------------------
\* C10 as stated: the key of every cache fetch is
\* <configured Subfolder>/<name>-v<version>/<last segment of the URL> with
\* leading slashes trimmed, and the upload uses the key and path of the fetch.
\* ------------------------------------------------------------------------
KeyUnder(root, j) ==
    TrimLeft(root \o <<"/">> \o spec0.Installs[j].Name \o <<"-v">>
                 \o spec0.Installs[j].Version \o <<"/">>
                 \o FileNameOf(spec0.Installs[j].Download), "/")

UploadAsFetched(j) ==
    \A u \in 1..Len(ops) :
        (ops[u].tool = j /\ ops[u].op = "upload") =>
            /\ ops[u].key = ToolOps(j, "fetch")[1].key
            /\ ops[u].path = ToolOps(j, "fetch")[1].path

NoSlash(v) == \A i \in 1..Len(v) : v[i] # "/"

C11_SameTreatment ==
    \A k \in 1..Len(ops) :
        ops[k].op = "download" =>
            LET j == ops[k].tool IN
            /\ Count(j, "download") = 1
            /\ ops[k].path = TmpPathOf(FileNameOf(spec0.Installs[j].Download))
            /\ ~ops[k].ok =>
                  /\ RunFailed
                  /\ idx = j
                  /\ ret.msg = DownloadError(spec0.Installs[j], ops[k].data)

\* ------------------------------------------------------------------------
\* C12: the environment of tool i's subprocess holds nothing contributed by
\* the declared envs of another tool: every entry is a base env, a secret
\* env or one of tool i's normalized envs, and its length is
\* |base| + |secret| + |normalized envs of tool i|.
\* ------------------------------------------------------------------------
Entries(q) == {q[n] : n \in 1..Len(q)}

C12_FreshEnv ==
    \A k \in 1..Len(ops) :
        ops[k].op = "spawn" =>
            LET own == Environs(spec0.Installs[ops[k].tool].Envs) IN
            /\ Entries(ops[k].data)
                  \subseteq Entries(BaseEnvs) \cup Entries(SecretEnvs)
                                \cup Entries(own)
            /\ Len(ops[k].data) = Len(BaseEnvs) + Len(SecretEnvs) + Len(own)

\* ------------------------------------------------------------------------
\* C13: the parsed spec is immutable during Run: every field of every tool
\* and of the storage configuration keeps the value it had at construction.
\* ------------------------------------------------------------------------
C13_SpecImmutable == spec = spec0

\* ------------------------------------------------------------------------
\* C14 as stated: the environment is built for tool i only after its
\* artifact resolution completed successfully: while tool i resolves, and
\* after its resolution failed, the step's environment is what it was before
\* tool i began.
\* ------------------------------------------------------------------------
RECURSIVE EnvsAfter(_)
\* the base envs followed by the normalized envs of the tools 1..k
EnvsAfter(k) ==
    IF k = 0 THEN BaseEnvs
    ELSE EnvsAfter(k - 1) \o
             (IF spec0.Installs[k].isNil THEN <<>>
              ELSE Environs(spec0.Installs[k].Envs))

ResolverLocations == {"resolve", "fetch", "download", "download_noclient", "upload"}

Stage(name) ==
    IF name \in {"newclient", "fetch", "download", "upload"} THEN 1
    ELSE IF name = "write" THEN 2
    ELSE IF name = "spawn" THEN 3
    ELSE 4

Begun ==
    IF pc = "loop" THEN idx - 1
    ELSE IF idx > Len(spec.Installs) THEN Len(spec.Installs) ELSE idx

C15_WriteBeforeSpawn ==
    /\ \A k \in 1..Len(ops) :
          ops[k].op = "spawn" =>
              \E w \in 1..(k - 1) :
                  /\ ops[w].tool = ops[k].tool
                  /\ ops[w].op = "write"
                  /\ ops[w].ok
                  /\ ops[w].key = ScriptMode
                  /\ ops[w].path = ops[k].path
                  /\ ops[w].data =
                        ScriptBody(<<StrictHeader>> \o Substituted(ops[k].tool))
                  /\ ~Contains(ops[w].data, FilepathParam)
    /\ \A j \in RealTools :
          Did(j, "write", FALSE) =>
              /\ RunFailed
              /\ idx = j
              /\ HasPrefixAt(ret.msg, <<"write script file error: ">>, 1)
              /\ Count(j, "spawn") = 0

\* the first tool was started from its script, the second could not write its
C15_Witness ==
    /\ Did(1, "spawn", TRUE)
    /\ \E c \in 1..Len(spec0.Installs[1].Scripts) :
          Contains(spec0.Installs[1].Scripts[c], FilepathParam)
    /\ Did(2, "write", FALSE)

\* ------------------------------------------------------------------------
\* C16: no retries: every tool performs at most one client construction,
\* one cache fetch, one origin download, one upload, one script write and
\* one subprocess start.
\* ------------------------------------------------------------------------
C16_NoRetries ==
    \A j \in ToolIds :
        \A name \in {"newclient", "fetch", "download", "upload", "write", "spawn"} :
            Count(j, name) <= 1

\* a tool that fetched, downloaded, uploaded and started, each once
C16_Witness ==
    \E j \in RealTools :
        /\ Count(j, "fetch") = 1
        /\ Count(j, "download") = 1
        /\ Count(j, "upload") = 1
        /\ Count(j, "spawn") = 1


\* ------------------------------------------------------------------------
\* C19: with every external call returning, Run eventually returns and stays
\* returned, either with nil after all N tools succeeded or with the error
\* of exactly one tool i, the tools before i succeeded and those after i
\* still pending; each tool moves pending -> installing -> success or failed
\* at most once, and nothing changes after Run returned.
\* ------------------------------------------------------------------------
ToolState(j) ==
    IF j < idx THEN "success"
    ELSE IF j > idx \/ pc \in {"loop", "panic"} THEN "pending"
    ELSE IF RunFailed THEN "failed"
    ELSE "installing"

Allowed(j, a, b) ==
    \/ a = b
    \/ a = "pending" /\ b = "installing"
    \/ a = "installing" /\ b \in {"success", "failed"}

FinalState ==
    ret.returned =>
        \/ /\ RunOk
           /\ \A j \in ToolIds : ToolState(j) = "success"
        \/ /\ RunFailed
           /\ idx \in RealTools
           /\ \A j \in ToolIds :
                 ToolState(j) = (IF j < idx THEN "success"
                                 ELSE IF j = idx THEN "failed" ELSE "pending")

C19_Termination ==
    /\ <>[](ret.returned /\ pc = "done")
    /\ []FinalState
    /\ [][/\ \A j \in ToolIds : Allowed(j, ToolState(j), ToolState(j)')
          /\ ret.returned => (ret' = ret /\ idx' = idx /\ ops' = ops)]_vars

\* ------------------------------------------------------------------------
\* The log of a subprocess's output
\* ------------------------------------------------------------------------

\* the lines logged from stream s of tool j, in log order
LoggedOf(j, s) ==
    LET q == SelectSeq(logged, LAMBDA e : e.tool = j /\ e.stream = s)
    IN  [k \in 1..Len(q) |-> q[k].line]

\* C17 (as stated): once the installation of a tool has returned, every
\* line its subprocess wrote to stdout and to stderr is in the log, and no
\* line is logged after the installation returned.
C17_OutputComplete ==
    /\ \A k \in 1..Len(logged) : ~logged[k].late
    /\ \A j \in ToolIds : InstallReturned(j) =>
          \A s \in Streams : \A n \in 1..written[j][s] :
             \E k \in 1..Len(LoggedOf(j, s)) : LoggedOf(j, s)[k] = n

\* C18: whatever the interleaving of the two drain goroutines and the wait,
\* the lines logged from one stream of a tool are lines the subprocess
\* wrote to that stream, in the order it wrote them, each once and with
\* none skipped before a logged one (a prefix of the stream's lines).
C18_StreamOrder ==
    \A j \in ToolIds : \A s \in Streams :
       /\ Len(LoggedOf(j, s)) <= written[j][s]
       /\ \A k \in 1..Len(LoggedOf(j, s)) : LoggedOf(j, s)[k] = k

\* both streams fully logged with their lines interleaved, one of them after
\* a single Read took two lines
C18_Witness ==
    /\ Len(logged) = 4
    /\ LoggedOf(1, "out") = <<1, 2>>
    /\ LoggedOf(1, "err") = <<1, 2>>
    /\ logged[1].stream = "err"
    /\ logged[2].stream = "out"
    /\ logged[3].stream = "err"
    /\ Did(1, "exit", TRUE)

\* ------------------------------------------------------------------------
\* C20: WaitForCETaskTobeDone returns a result without error only after a
\* poll that observed SUCCESS, and the result is that poll's analysis ID; a
\* poll that fails or observes FAILED or CANCELED is the last poll and the
\* call has returned its error; after a poll that observed any other status
\* the call goes on (it has not returned, or it returned the timeout error
\* later); a select step taken when the timeout has fired and no tick is
\* pending returns the timeout error without polling; and the call always
\* returns in the end.
\* ------------------------------------------------------------------------
Terminal(r) ==
    \/ ~r.ok
    \/ r.status \in {CETaskSuccess, CETaskFailed, CETaskCanceled}

PollLoopState ==
    /\ (wret.returned /\ wret.err = NoErr) =>
          /\ polls # <<>>
          /\ polls[Len(polls)].ok
          /\ polls[Len(polls)].status = CETaskSuccess
          /\ wret.id = polls[Len(polls)].id
    /\ (wret.returned /\ wret.err # NoErr) => wret.id = <<>>
    /\ \A k \in 1..Len(polls) :
          IF Terminal(polls[k])
            THEN /\ k = Len(polls)
                 /\ wret.returned
                 /\ wret.err =
                      (IF ~polls[k].ok THEN InfoError(polls[k].err)
                       ELSE IF polls[k].status = CETaskSuccess THEN NoErr
                       ELSE StatusError(polls[k].status))
            ELSE k = Len(polls) =>
                    (~wret.returned \/ wret.err = TimeoutError)
    /\ wret.returned <=> wpc = "done"

C20_PollLoop ==
    /\ []PollLoopState
    /\ [][(timeouts /\ ~tickerC /\ (wret' # wret \/ polls' # polls)) =>
             (wret' = WaitReturned(<<>>, TimeoutError) /\ polls' = polls)]_vars
    /\ <>[]wret.returned

\* the third poll observed SUCCESS after a PENDING and an unrecognised
\* status carrying another analysis ID, the timeout having fired meanwhile
C20_Witness ==
    /\ wret.returned
    /\ wret.err = NoErr
    /\ Len(polls) = 3
    /\ polls[1].status = CETaskPending
    /\ polls[2].status = CETaskOther
    /\ polls[2].id # wret.id
    /\ timeouts

====
